---- MODULE Spec2Model ----
(***************************************************************************)
(* Model of pkg/cndp/cndp.go: the Unix domain socket server that hands     *)
(* XSK file descriptors to one validated pod.                              *)
(*                                                                         *)
(* A message is a sequence of text chunks ("symbols"): a protocol token,   *)
(* a comma, a space or a name.  strings.Contains, strings.Split and        *)
(* strings.ReplaceAll are computed on these chunks; no protocol token is a *)
(* substring of another request token, so chunk granularity loses nothing  *)
(* for the messages enumerated here.  Every enumerated message fits in     *)
(* udsBufSize bytes, so read() never truncates.                            *)
(***************************************************************************)
EXTENDS Integers, Sequences, FiniteSets, TLC

VARIABLES
    pc,          \* position of the serving task in start()
    devices,     \* server.devices: map netdev name -> fd
    deviceType,  \* server.deviceType
    listener,    \* the Unix listener: "none", "open", "closed"
    conn,        \* server.conn: "none", "open", "closed"
    socketFile,  \* the os.File of conn.File(): "none", "open", "closed"
    request,     \* the local `request` of start()
    hostname,    \* the argument last passed to validateHost
    resp,        \* the answer of getPodResources seen by validateHost
    valid,       \* the bool returned by validateHost
    verr,        \* TRUE iff validateHost returned a non-nil error
    connected,   \* the local `connected` of start()
    received,    \* history: the messages read() returned, in order
    sent,        \* history: the Sendmsg calls, in order
    nvalidate,   \* history: number of validateHost calls
    fs,          \* the socket files that exist under usdSockDir
    inst,        \* the server instances of one process, by instance number
    crashed      \* TRUE once an unrecovered panic has ended the process

\* the process-wide state; the session variables above follow one instance
procVars == <<fs, inst, crashed>>

vars == <<pc, devices, deviceType, listener, conn, socketFile, request,
          hostname, resp, valid, verr, connected, received, sent, nvalidate,
          fs, inst, crashed>>

(***************************************************************************)
(* Protocol constants, cndp.go lines 33-56.                                *)
(***************************************************************************)
handshakeVersion == "0.1"
requestVersion == "/version"
requestConnect == "/connect"
responseHostOk == "/host_ok"
responseHostNak == "/host_nak"
requestFd == "/xsk_map_fd"
responseFdAck == "/fd_ack"
responseFdNak == "/fd_nak"
requestFin == "/fin"
responseFinAck == "/fin_ack"
responseBadRequest == "/nak"
responseError == "/error"

(***************************************************************************)
(* Bounds and input sets.                                                  *)
(***************************************************************************)
\* messages read in one session (the first one included)
MaxReads == 3
\* device identifiers in one device group of the allocation table
MaxIds == 2

NetDevs == {"eth1", "eth2"}
FdValues == {0, 7, 8}
DeviceIds == {"eth1", "eth2", "eth9"}
ResourceNames == {"net", "other"}
PodNames == {"podA", "podB"}

NoRequest == <<>>
NoResp == [err |-> FALSE, pods |-> <<>>]
NoDevices == [d \in {} |-> 0]

\* server instances created in one process
MaxInstances == 2
Instances == 1..MaxInstances
\* an instance number for which CreateUdsServer has not been called
NoInstance ==
    [pc |-> "none", socket |-> "", listener |-> "none", conn |-> "none",
     connected |-> FALSE, seen |-> {}]

(***************************************************************************)
(* String helpers (package strings).                                       *)
(***************************************************************************)
Contains(s, tok) == \E i \in DOMAIN s : s[i] = tok

RECURSIVE Split(_)
Split(s) ==
    IF ~Contains(s, ",") THEN <<s>>
    ELSE LET i == CHOOSE k \in DOMAIN s :
                      s[k] = "," /\ \A j \in 1..(k - 1) : s[j] # ","
         IN <<SubSeq(s, 1, i - 1)>> \o Split(SubSeq(s, i + 1, Len(s)))

RECURSIVE Join(_)
Join(s) == IF s = <<>> THEN "" ELSE Head(s) \o Join(Tail(s))

NotSpace(c) == c # " "
ReplaceAllSpaces(s) == Join(SelectSeq(s, NotSpace))

\* s[1] of the Go code: the text between the first and the second comma
Argument(req) == ReplaceAllSpaces(Split(req)[2])
HasArgument(req) == Len(Split(req)) >= 2

(***************************************************************************)
(* validateHost, cndp.go lines 339-393.  resp is what getPodResources      *)
(* returned: resp.err for a failed or timed-out query, otherwise resp.pods *)
(* is the list of pods, each a name and a list of containers, each a list  *)
(* of device groups [resourceName, deviceIds].                             *)
(***************************************************************************)
\* lines 348-352: later pods of the same name overwrite earlier ones
podResourceMap(pods) ==
    [n \in {pods[i].name : i \in DOMAIN pods} |->
        pods[CHOOSE i \in DOMAIN pods :
                 pods[i].name = n /\ \A j \in DOMAIN pods : j > i => pods[j].name # n]]

\* the devices of all containers in the order the two outer loops visit them
RECURSIVE GetDevices(_)
GetDevices(containers) ==
    IF containers = <<>> THEN <<>>
    ELSE Head(containers) \o GetDevices(Tail(containers))

\* lines 375-382: the scan over one group's device ids, starting from `v`
RECURSIVE ScanDeviceIds(_, _, _)
ScanDeviceIds(ids, devs, v) ==
    IF ids = <<>> THEN v
    ELSE ScanDeviceIds(Tail(ids), devs, Head(ids) \in DOMAIN devs)

\* lines 364-392: the scan over the groups; `v` is the variable `valid`
RECURSIVE ScanGroups(_, _, _, _)
ScanGroups(groups, dt, devs, v) ==
    IF groups = <<>> THEN FALSE
    ELSE LET g == Head(groups) IN
         IF g.resourceName # dt \/ Len(g.deviceIds) # Cardinality(DOMAIN devs)
         THEN ScanGroups(Tail(groups), dt, devs, v)
         ELSE LET w == ScanDeviceIds(g.deviceIds, devs, v) IN
              IF w THEN TRUE ELSE ScanGroups(Tail(groups), dt, devs, w)

\* a plausible slip: an unknown pod reported as an error, a failed query as a verdict
validateHostErrorSwapped(host, r, dt, devs) ==
    IF r.err THEN [valid |-> FALSE, err |-> FALSE]
    ELSE IF host \notin DOMAIN podResourceMap(r.pods)
         THEN [valid |-> FALSE, err |-> TRUE]
         ELSE [valid |-> ScanGroups(GetDevices(podResourceMap(r.pods)[host].containers),
                                    dt, devs, FALSE),
               err |-> FALSE]

validateHost(host, r, dt, devs) ==
    IF r.err THEN [valid |-> FALSE, err |-> TRUE]
    ELSE IF host \notin DOMAIN podResourceMap(r.pods)
         THEN [valid |-> FALSE, err |-> FALSE]
         ELSE [valid |-> ScanGroups(GetDevices(podResourceMap(r.pods)[host].containers),
                                    dt, devs, FALSE),
               err |-> FALSE]

(***************************************************************************)
(* write, writeWithFD and handleXskRequest, cndp.go lines 295-337: what    *)
(* one Sendmsg call carries.  fds is the list of attached descriptors.     *)
(***************************************************************************)
writeWithFD(response, fd) ==
    [msg |-> response, fds |-> IF fd > 0 THEN <<fd>> ELSE <<>>]

write(response) == writeWithFD(response, -1)

\* a plausible slip: the lookup result is ignored
handleXskRequestNoLookup(req, devs) ==
    IF devs # NoDevices
    THEN writeWithFD(responseFdAck, devs[CHOOSE d \in DOMAIN devs : TRUE])
    ELSE write(responseFdNak)

\* lines 325-335, for a request that has an argument (s[1] exists)
handleXskRequest(req, devs) ==
    LET iface == Argument(req) IN
    IF iface \in DOMAIN devs
    THEN writeWithFD(responseFdAck, devs[iface])
    ELSE write(responseFdNak)

(***************************************************************************)
(* start(), cndp.go lines 146-269.                                         *)
(***************************************************************************)
\* a deferred Close() runs on every return and while a panic unwinds
Release(h) == IF h = "open" THEN "closed" ELSE h

Text(req) == Join(req)

\* a plausible slip: the session continues after a rejected handshake
handshakeReplyAlwaysConnected(v) ==
    IF v THEN [reply |-> write(responseHostOk), connected |-> TRUE]
    ELSE [reply |-> write(responseHostNak), connected |-> TRUE]

\* a plausible slip: the wrong token in the rejecting branch
handshakeReplyOkToken(v) ==
    IF v THEN [reply |-> write(responseHostOk), connected |-> TRUE]
    ELSE [reply |-> write(responseHostOk), connected |-> FALSE]

\* lines 227-232
handshakeReply(v) ==
    IF v THEN [reply |-> write(responseHostOk), connected |-> TRUE]
    ELSE [reply |-> write(responseHostNak), connected |-> FALSE]

\* a plausible slip: the termination request does not end the loop
serveRequestFinKeepsLoop(req, devs) ==
    IF Contains(req, requestFd)
    THEN [reply |-> handleXskRequest(req, devs), connected |-> TRUE]
    ELSE IF Text(req) = requestVersion
    THEN [reply |-> write(handshakeVersion), connected |-> TRUE]
    ELSE IF Text(req) = requestFin
    THEN [reply |-> write(responseFinAck), connected |-> TRUE]
    ELSE [reply |-> write(responseBadRequest), connected |-> TRUE]

\* a plausible slip: the wrong constant in the default branch
serveRequestVersionDefault(req, devs) ==
    IF Contains(req, requestFd)
    THEN [reply |-> handleXskRequest(req, devs), connected |-> TRUE]
    ELSE IF Text(req) = requestVersion
    THEN [reply |-> write(handshakeVersion), connected |-> TRUE]
    ELSE IF Text(req) = requestFin
    THEN [reply |-> write(responseFinAck), connected |-> FALSE]
    ELSE [reply |-> write(handshakeVersion), connected |-> TRUE]

\* a plausible slip: a connect request is accepted again inside the loop
serveRequestConnectAccepted(req, devs) ==
    IF Contains(req, requestFd)
    THEN [reply |-> handleXskRequest(req, devs), connected |-> TRUE]
    ELSE IF Contains(req, requestConnect)
    THEN [reply |-> write(responseHostOk), connected |-> TRUE]
    ELSE IF Text(req) = requestVersion
    THEN [reply |-> write(handshakeVersion), connected |-> TRUE]
    ELSE IF Text(req) = requestFin
    THEN [reply |-> write(responseFinAck), connected |-> FALSE]
    ELSE [reply |-> write(responseBadRequest), connected |-> TRUE]

\* lines 249-262: the switch, for a request that does not make s[1] panic
serveRequest(req, devs) ==
    IF Contains(req, requestFd)
    THEN [reply |-> handleXskRequest(req, devs), connected |-> TRUE]
    ELSE IF Text(req) = requestVersion
    THEN [reply |-> write(handshakeVersion), connected |-> TRUE]
    ELSE IF Text(req) = requestFin
    THEN [reply |-> write(responseFinAck), connected |-> FALSE]
    ELSE [reply |-> write(responseBadRequest), connected |-> TRUE]

\* one Sendmsg call, delivered (ok) or failed
Sendmsg(reply, ok) == [msg |-> reply.msg, fds |-> reply.fds, ok |-> ok]

\* the messages a peer may send
Requests ==
    { <<requestConnect, ",", " ", "podA">>,
      <<requestConnect, ",", " ", "podB">>,
      <<requestConnect>>,
      <<requestFd, ",", " ", "eth1">>,
      <<requestFd, ",", " ", "eth2">>,
      <<requestFd, ",", " ", requestConnect>>,
      <<requestFd>>,
      <<requestVersion>>,
      <<requestFin>>,
      <<requestFin, " ">>,
      <<"hello">> }

\* the allocation table seen by the sessions: podA holds eth1 in one
\* container and eth1, eth2 in another; podB is not on the node
SessionTable ==
    [err |-> FALSE,
     pods |-> << [name |-> "podA",
                  containers |->
                      << << [resourceName |-> "net", deviceIds |-> <<"eth1">>] >>,
                         << [resourceName |-> "net",
                             deviceIds |-> <<"eth1", "eth2">>] >> >>] >>]
QueryError == [err |-> TRUE, pods |-> <<>>]
SessionResponses == {SessionTable, QueryError}

\* CreateUdsServer, lines 114-125
Init ==
    /\ pc = "Created"
    /\ devices = NoDevices
    /\ deviceType = "net"
    /\ listener = "none"
    /\ conn = "none"
    /\ socketFile = "none"
    /\ request = NoRequest
    /\ hostname = ""
    /\ resp = NoResp
    /\ valid = FALSE
    /\ verr = FALSE
    /\ connected = FALSE
    /\ received = <<>>
    /\ sent = <<>>
    /\ nvalidate = 0
    /\ fs = {}
    /\ inst = [i \in Instances |-> NoInstance]
    /\ crashed = FALSE

\* `return` from start(): the deferred closes run
Return ==
    /\ pc' = "Closed"
    /\ listener' = Release(listener)
    /\ conn' = Release(conn)
    /\ socketFile' = Release(socketFile)

\* an index-out-of-range panic in the serving goroutine: the deferred closes
\* run while it unwinds, nothing recovers it and the process dies
Panic ==
    /\ pc' = "Panicked"
    /\ listener' = Release(listener)
    /\ conn' = Release(conn)
    /\ socketFile' = Release(socketFile)

\* lines 138-140; the owner fills the registry before Start
AddDevice(dev, fd) ==
    /\ pc = "Created"
    /\ devices' = [d \in DOMAIN devices \cup {dev} |->
                      IF d = dev THEN fd ELSE devices[d]]
    /\ UNCHANGED procVars
    /\ UNCHANGED <<pc, deviceType, listener, conn, socketFile, request, hostname,
                   resp, valid, verr, connected, received, sent, nvalidate>>

\* lines 131-133 and 147-154 (ResolveUnixAddr cannot fail for "unixpacket")
Start ==
    /\ pc = "Created"
    /\ pc' = "ListenUnix"
    /\ UNCHANGED procVars
    /\ UNCHANGED <<devices, deviceType, listener, conn, socketFile, request,
                   hostname, resp, valid, verr, connected, received, sent, nvalidate>>

\* lines 157-165
ListenUnix ==
    /\ pc = "ListenUnix"
    /\ pc' = "AcceptUnix"
    /\ listener' = "open"
    /\ UNCHANGED procVars
    /\ UNCHANGED <<devices, deviceType, conn, socketFile, request, hostname, resp,
                   valid, verr, connected, received, sent, nvalidate>>

\* lines 158-161
ListenUnixError ==
    /\ pc = "ListenUnix"
    /\ Return
    /\ UNCHANGED procVars
    /\ UNCHANGED <<devices, deviceType, request, hostname, resp, valid, verr,
                   connected, received, sent, nvalidate>>

\* lines 179, 188-191 (server.timeout is false: no deadline is set)
AcceptUnix ==
    /\ pc = "AcceptUnix"
    /\ pc' = "File"
    /\ conn' = "open"
    /\ UNCHANGED procVars
    /\ UNCHANGED <<devices, deviceType, listener, socketFile, request, hostname,
                   resp, valid, verr, connected, received, sent, nvalidate>>

\* lines 180-187
AcceptUnixError ==
    /\ pc = "AcceptUnix"
    /\ Return
    /\ UNCHANGED procVars
    /\ UNCHANGED <<devices, deviceType, request, hostname, resp, valid, verr,
                   connected, received, sent, nvalidate>>

\* lines 196, 201-202
ConnFile ==
    /\ pc = "File"
    /\ pc' = "ReadFirst"
    /\ socketFile' = "open"
    /\ UNCHANGED procVars
    /\ UNCHANGED <<devices, deviceType, listener, conn, request, hostname, resp,
                   valid, verr, connected, received, sent, nvalidate>>

\* lines 197-200
ConnFileError ==
    /\ pc = "File"
    /\ Return
    /\ UNCHANGED procVars
    /\ UNCHANGED <<devices, deviceType, request, hostname, resp, valid, verr,
                   connected, received, sent, nvalidate>>

\* lines 205 and 271-293: the first request arrives
ReadFirst(msg) ==
    /\ pc = "ReadFirst"
    /\ Len(received) < MaxReads
    /\ request' = msg
    /\ received' = Append(received, msg)
    /\ pc' = "Handshake"
    /\ UNCHANGED procVars
    /\ UNCHANGED <<devices, deviceType, listener, conn, socketFile, hostname, resp,
                   valid, verr, connected, sent, nvalidate>>

\* lines 206-213
ReadFirstError ==
    /\ pc = "ReadFirst"
    /\ Return
    /\ UNCHANGED procVars
    /\ UNCHANGED <<devices, deviceType, request, hostname, resp, valid, verr,
                   connected, received, sent, nvalidate>>
\* lines 217 and 236: the first request holds no connect token, `connected`
\* stays false, the loop is skipped and start() returns
HandshakeNotConnect ==
    /\ pc = "Handshake"
    /\ ~Contains(request, requestConnect)
    /\ Return
    /\ UNCHANGED procVars
    /\ UNCHANGED <<devices, deviceType, request, hostname, resp, valid, verr,
                   connected, received, sent, nvalidate>>

\* lines 218-219: s[1] of a request without a comma
HandshakePanic ==
    /\ pc = "Handshake"
    /\ Contains(request, requestConnect)
    /\ ~HasArgument(request)
    /\ Panic
    /\ UNCHANGED procVars
    /\ UNCHANGED <<devices, deviceType, request, hostname, resp, valid, verr,
                   connected, received, sent, nvalidate>>

\* lines 218-221: validateHost is called with whatever the allocation
\* service answers at that moment
HandshakeValidate(r) ==
    /\ pc = "Handshake"
    /\ Contains(request, requestConnect)
    /\ HasArgument(request)
    /\ LET res == validateHost(Argument(request), r, deviceType, devices) IN
        /\ valid' = res.valid
        /\ verr' = res.err
        /\ pc' = IF res.err THEN "WriteError" ELSE "WriteReply"
    /\ hostname' = Argument(request)
    /\ resp' = r
    /\ nvalidate' = nvalidate + 1
    /\ UNCHANGED procVars
    /\ UNCHANGED <<devices, deviceType, listener, conn, socketFile, request,
                   connected, received, sent>>

\* lines 222-225: the result of write() is dropped and start() goes on
WriteError(ok) ==
    /\ pc = "WriteError"
    /\ sent' = Append(sent, Sendmsg(write(responseError), ok))
    /\ pc' = "WriteReply"
    /\ UNCHANGED procVars
    /\ UNCHANGED <<devices, deviceType, listener, conn, socketFile, request,
                   hostname, resp, valid, verr, connected, received, nvalidate>>

\* lines 227-236: the result of write() is dropped; the loop is entered
\* when connected, otherwise start() returns
WriteReply(ok) ==
    /\ pc = "WriteReply"
    /\ LET r == handshakeReply(valid) IN
        /\ sent' = Append(sent, Sendmsg(r.reply, ok))
        /\ connected' = r.connected
        /\ IF r.connected
           THEN pc' = "Read" /\ UNCHANGED <<listener, conn, socketFile>>
           ELSE Return
    /\ UNCHANGED procVars
    /\ UNCHANGED <<devices, deviceType, request, hostname, resp, valid, verr,
                   received, nvalidate>>

\* line 238
LoopRead(msg) ==
    /\ pc = "Read"
    /\ Len(received) < MaxReads
    /\ request' = msg
    /\ received' = Append(received, msg)
    /\ pc' = "Dispatch"
    /\ UNCHANGED procVars
    /\ UNCHANGED <<devices, deviceType, listener, conn, socketFile, hostname, resp,
                   valid, verr, connected, sent, nvalidate>>

\* lines 239-246
LoopReadError ==
    /\ pc = "Read"
    /\ Return
    /\ UNCHANGED procVars
    /\ UNCHANGED <<devices, deviceType, request, hostname, resp, valid, verr,
                   connected, received, sent, nvalidate>>

\* lines 250-251 and 322-323: s[1] of a descriptor request without a comma
ServePanic ==
    /\ pc = "Dispatch"
    /\ Contains(request, requestFd)
    /\ ~HasArgument(request)
    /\ Panic
    /\ UNCHANGED procVars
    /\ UNCHANGED <<devices, deviceType, request, hostname, resp, valid, verr,
                   connected, received, sent, nvalidate>>

\* a plausible slip: a served device is removed from the registry
ServeConsumesDevice(ok) ==
    /\ pc = "Dispatch"
    /\ ~(Contains(request, requestFd) /\ ~HasArgument(request))
    /\ LET r == serveRequest(request, devices) IN
        /\ sent' = Append(sent, Sendmsg(r.reply, ok))
        /\ connected' = r.connected
        /\ IF ok /\ r.connected
           THEN pc' = "Read" /\ UNCHANGED <<listener, conn, socketFile>>
           ELSE Return
    /\ devices' = [d \in DOMAIN devices \ {Argument(request \o <<",">>)} |-> devices[d]]
    /\ UNCHANGED procVars
    /\ UNCHANGED <<deviceType, request, hostname, resp, valid, verr,
                   received, nvalidate>>

\* lines 249-268: one reply; a failed write or a termination request ends
\* start(), otherwise the loop reads again
Serve(ok) ==
    /\ pc = "Dispatch"
    /\ ~(Contains(request, requestFd) /\ ~HasArgument(request))
    /\ LET r == serveRequest(request, devices) IN
        /\ sent' = Append(sent, Sendmsg(r.reply, ok))
        /\ connected' = r.connected
        /\ IF ok /\ r.connected
           THEN pc' = "Read" /\ UNCHANGED <<listener, conn, socketFile>>
           ELSE Return
    /\ UNCHANGED procVars
    /\ UNCHANGED <<devices, deviceType, request, hostname, resp, valid, verr,
                   received, nvalidate>>

Next ==
    \/ \E dev \in NetDevs, fd \in FdValues : AddDevice(dev, fd)
    \/ Start
    \/ ListenUnix
    \/ ListenUnixError
    \/ AcceptUnix
    \/ AcceptUnixError
    \/ ConnFile
    \/ ConnFileError
    \/ \E msg \in Requests : ReadFirst(msg)
    \/ ReadFirstError
    \/ HandshakeNotConnect
    \/ HandshakePanic
    \/ \E r \in SessionResponses : HandshakeValidate(r)
    \/ \E ok \in BOOLEAN : WriteError(ok)
    \/ \E ok \in BOOLEAN : WriteReply(ok)
    \/ \E msg \in Requests : LoopRead(msg)
    \/ LoopReadError
    \/ ServePanic
    \/ \E ok \in BOOLEAN : Serve(ok)

Spec == Init /\ [][Next]_vars

\* line 119: CreateUdsServer never enables the idle timeout, so lines
\* 168-174 and 275-281 set no deadline
timeout == FALSE

\* the steps start() takes by itself: every call below returns
ServerStep ==
    \/ ListenUnix
    \/ ListenUnixError
    \/ ConnFile
    \/ ConnFileError
    \/ HandshakeNotConnect
    \/ HandshakePanic
    \/ \E r \in SessionResponses : HandshakeValidate(r)
    \/ \E ok \in BOOLEAN : WriteError(ok)
    \/ \E ok \in BOOLEAN : WriteReply(ok)
    \/ ServePanic
    \/ \E ok \in BOOLEAN : Serve(ok)

\* AcceptUnix and Recvmsg block until the peer acts; with a deadline set
\* they would return a timeout error
DeadlineExpires ==
    timeout /\ (AcceptUnixError \/ ReadFirstError \/ LoopReadError)

\* the serving goroutine is scheduled; the peer is free to stay silent
SpecLive ==
    Init /\ [][Next]_vars /\ WF_vars(ServerStep) /\ WF_vars(DeadlineExpires)
(***************************************************************************)
(* validateHost on its own: every allocation table of the shapes below,    *)
(* every claimed identity and every registry over NetDevs.                 *)
(***************************************************************************)
IdLists == UNION {[1..n -> DeviceIds] : n \in 0..MaxIds}
Groups == [resourceName : ResourceNames, deviceIds : IdLists]

\* the containers of a pod: none, one group, two groups in one container,
\* two groups in two containers
ContainerLists ==
    {<<>>} \cup {<< <<g>> >> : g \in Groups}
           \cup {<< <<g, h>> >> : g, h \in Groups}
           \cup {<< <<g>>, <<h>> >> : g, h \in Groups}

\* a second pod that holds eth1
Neighbour(n) ==
    [name |-> n,
     containers |-> << << [resourceName |-> "net", deviceIds |-> <<"eth1">>] >> >>]

\* podA alone, podA before podB, and podA listed after another podA
Tables ==
    {<<>>}
    \cup {<<[name |-> "podA", containers |-> c]>> : c \in ContainerLists}
    \cup {<<[name |-> "podA", containers |-> c], Neighbour("podB")>> :
              c \in ContainerLists}
    \cup {<<Neighbour("podA"), [name |-> "podA", containers |-> c]>> :
              c \in ContainerLists}

Responses == {QueryError} \cup {[err |-> FALSE, pods |-> t] : t \in Tables}
Registries == {[d \in S |-> 7] : S \in SUBSET NetDevs}
Identities == PodNames \cup {"podC"}

\* start() has read a connect request and is about to call validateHost
InitValidate ==
    /\ pc = "validateHost"
    /\ devices \in Registries
    /\ deviceType = "net"
    /\ listener = "open"
    /\ conn = "open"
    /\ socketFile = "open"
    /\ hostname \in Identities
    /\ request = <<requestConnect, ",", " ", hostname>>
    /\ resp \in Responses
    /\ valid = FALSE
    /\ verr = FALSE
    /\ connected = FALSE
    /\ received = <<request>>
    /\ sent = <<>>
    /\ nvalidate = 0
    /\ fs = {}
    /\ inst = [i \in Instances |-> NoInstance]
    /\ crashed = FALSE

\* line 221
ValidateHostCall ==
    /\ pc = "validateHost"
    /\ LET res == validateHost(hostname, resp, deviceType, devices) IN
        /\ valid' = res.valid
        /\ verr' = res.err
    /\ pc' = "validated"
    /\ nvalidate' = nvalidate + 1
    /\ UNCHANGED procVars
    /\ UNCHANGED <<devices, deviceType, listener, conn, socketFile, request,
                   hostname, resp, connected, received, sent>>

NextValidate == ValidateHostCall

SpecValidate == InitValidate /\ [][NextValidate]_vars
(***************************************************************************)
(* Several instances in one process, each handler taken as one step.       *)
(* inst[i] holds the position of instance i's start() (pc), server.socket, *)
(* its listener and connection, the local `connected`, and as history the  *)
(* socket files that existed when its path was generated (seen).           *)
(***************************************************************************)
usdSockDir == "/tmp/"

\* the values uuid.NewV4 may return
Uuids == {"u1", "u2"}

\* line 435
SocketPath(u) == usdSockDir \o u \o ".sock"

\* a plausible slip: the existence check is dropped
PathIsFreeNoStat(path, files) == TRUE

\* line 436: os.Stat says the path does not exist
PathIsFree(path, files) == path \notin files

\* every instance of this process serves eth1 of resource "net"
InstDevices == [d \in {"eth1"} |-> 7]

\* the messages the peer of an instance may send
InstRequests ==
    { <<requestConnect, ",", " ", "podA">>,
      <<requestConnect, ",", " ", "podB">>,
      <<requestConnect>>,
      <<requestFd, ",", " ", "eth1">>,
      <<requestFd>>,
      <<requestFin>> }

\* start() of instance i ends: the deferred closes run; closing the
\* listener removes its socket file
EndInstanceWith(i, how, c) ==
    /\ inst' = [inst EXCEPT ![i].pc = how,
                            ![i].listener = Release(@),
                            ![i].conn = Release(@),
                            ![i].connected = c]
    /\ fs' = IF inst[i].listener = "open" THEN fs \ {inst[i].socket} ELSE fs

EndInstance(i, how) == EndInstanceWith(i, how, inst[i].connected)

\* an unrecovered panic in instance i's goroutine ends the whole process
PanicInstance(i) ==
    /\ EndInstance(i, "Panicked")
    /\ crashed' = TRUE

sessionVars == <<pc, devices, deviceType, listener, conn, socketFile, request,
                 hostname, resp, valid, verr, connected, received, sent,
                 nvalidate>>

\* lines 114-125 and 426-443: the loop ends with an identifier whose path
\* does not exist; instances are created in the order of their numbers
ProcCreateUdsServer(i, u) ==
    /\ ~crashed
    /\ inst[i].pc = "none"
    /\ \A j \in Instances : j < i => inst[j].pc # "none"
    /\ PathIsFree(SocketPath(u), fs)
    /\ inst' = [inst EXCEPT ![i].pc = "Created",
                            ![i].socket = SocketPath(u),
                            ![i].seen = fs]
    /\ UNCHANGED <<fs, crashed>>
    /\ UNCHANGED sessionVars

\* lines 131-133
ProcStart(i) ==
    /\ ~crashed
    /\ inst[i].pc = "Created"
    /\ inst' = [inst EXCEPT ![i].pc = "ListenUnix"]
    /\ UNCHANGED <<fs, crashed>>
    /\ UNCHANGED sessionVars

\* lines 157-165: binding creates the socket file
ProcListenUnix(i) ==
    /\ ~crashed
    /\ inst[i].pc = "ListenUnix"
    /\ inst[i].socket \notin fs
    /\ inst' = [inst EXCEPT ![i].pc = "AcceptUnix", ![i].listener = "open"]
    /\ fs' = fs \cup {inst[i].socket}
    /\ UNCHANGED crashed
    /\ UNCHANGED sessionVars

\* lines 158-161: the bind fails, always so when the file exists
ProcListenUnixError(i) ==
    /\ ~crashed
    /\ inst[i].pc = "ListenUnix"
    /\ EndInstance(i, "Closed")
    /\ UNCHANGED crashed
    /\ UNCHANGED sessionVars

\* lines 179-202
ProcAcceptUnix(i) ==
    /\ ~crashed
    /\ inst[i].pc = "AcceptUnix"
    /\ inst' = [inst EXCEPT ![i].pc = "ReadFirst", ![i].conn = "open"]
    /\ UNCHANGED <<fs, crashed>>
    /\ UNCHANGED sessionVars

\* lines 180-187, 197-200
ProcAcceptUnixError(i) ==
    /\ ~crashed
    /\ inst[i].pc = "AcceptUnix"
    /\ EndInstance(i, "Closed")
    /\ UNCHANGED crashed
    /\ UNCHANGED sessionVars

\* lines 205-236: the first message and the handshake
ProcHandshake(i, msg, r) ==
    /\ ~crashed
    /\ inst[i].pc = "ReadFirst"
    /\ IF ~Contains(msg, requestConnect)
       THEN EndInstance(i, "Closed") /\ UNCHANGED crashed
       ELSE IF ~HasArgument(msg)
       THEN PanicInstance(i)
       ELSE IF handshakeReply(validateHost(Argument(msg), r, "net",
                                           InstDevices).valid).connected
       THEN /\ inst' = [inst EXCEPT ![i].pc = "Read", ![i].connected = TRUE]
            /\ UNCHANGED <<fs, crashed>>
       ELSE EndInstance(i, "Closed") /\ UNCHANGED crashed
    /\ UNCHANGED sessionVars

\* lines 236-268: one message inside the loop
ProcServe(i, msg, ok) ==
    /\ ~crashed
    /\ inst[i].pc = "Read"
    /\ IF Contains(msg, requestFd) /\ ~HasArgument(msg)
       THEN PanicInstance(i)
       ELSE IF ok /\ serveRequest(msg, InstDevices).connected
       THEN UNCHANGED <<inst, fs, crashed>>
       ELSE /\ EndInstanceWith(i, "Closed",
                               serveRequest(msg, InstDevices).connected)
            /\ UNCHANGED crashed
    /\ UNCHANGED sessionVars

\* lines 206-213, 239-246
ProcReadError(i) ==
    /\ ~crashed
    /\ inst[i].pc \in {"ReadFirst", "Read"}
    /\ EndInstance(i, "Closed")
    /\ UNCHANGED crashed
    /\ UNCHANGED sessionVars

NextProcess ==
    \/ \E i \in Instances, u \in Uuids : ProcCreateUdsServer(i, u)
    \/ \E i \in Instances : ProcStart(i)
    \/ \E i \in Instances : ProcListenUnix(i)
    \/ \E i \in Instances : ProcListenUnixError(i)
    \/ \E i \in Instances : ProcAcceptUnix(i)
    \/ \E i \in Instances : ProcAcceptUnixError(i)
    \/ \E i \in Instances, msg \in InstRequests, r \in SessionResponses :
           ProcHandshake(i, msg, r)
    \/ \E i \in Instances, msg \in InstRequests, ok \in BOOLEAN :
           ProcServe(i, msg, ok)
    \/ \E i \in Instances : ProcReadError(i)

SpecProcess == Init /\ [][NextProcess]_vars

(***************************************************************************)
(* Properties.                                                             *)
(***************************************************************************)
Range(f) == {f[i] : i \in DOMAIN f}
Last(q) == q[Len(q)]

\* "<token>, <argument>": the token, one comma, a non-empty argument
HasForm(req, token) ==
    /\ Len(Split(req)) = 2
    /\ Text(Split(req)[1]) = token
    /\ Argument(req) # ""
IsConnectRequest(req) == HasForm(req, requestConnect)
IsFdRequest(req) == HasForm(req, requestFd)

\* the session passed the handshake: validateHost answered entitled
Admitted == nvalidate = 1 /\ valid /\ ~verr

\* C1: a reply with a descriptor attached is an fd_ack, sent after
\* validateHost answered entitled (and without error) for the identity of the
\* connect request and after the host_ok reply, and it answers a request
\* whose interface name is a key of the registry.
C1_DescriptorOnlyAfterValidation ==
    \A i \in DOMAIN sent :
        sent[i].fds # <<>> =>
            /\ Admitted
            /\ HasArgument(received[1])
            /\ hostname = Argument(received[1])
            /\ i > 1
            /\ sent[1].msg = responseHostOk
            /\ sent[i].msg = responseFdAck
            /\ i <= Len(received)
            /\ HasArgument(received[i])
            /\ Argument(received[i]) \in DOMAIN devices

C1_Witness ==
    /\ Len(sent) >= 2
    /\ sent[2] = [msg |-> responseFdAck, fds |-> <<7>>, ok |-> TRUE]
    /\ received[2] = <<requestFd, ",", " ", "eth1">>

\* the device groups of the pod that the claimed identity names
ClaimedGroups ==
    IF resp.err \/ hostname \notin DOMAIN podResourceMap(resp.pods) THEN {}
    ELSE Range(GetDevices(podResourceMap(resp.pods)[hostname].containers))

\* C2: validateHost answers entitled if and only if the claimed pod has a
\* device group with the instance's resource name whose set of device ids
\* equals the set of registry keys.
C2_EntitledIffSetEqual ==
    (pc = "validated" /\ ~resp.err) =>
        (valid <=> \E g \in ClaimedGroups :
                       /\ g.resourceName = deviceType
                       /\ Range(g.deviceIds) = DOMAIN devices)

\* C3: the verdict for a group is the conjunction over its ids: entitled is
\* answered only if some candidate group has every id in the registry.
C3_GroupVerdictIsConjunction ==
    (pc = "validated" /\ valid) =>
        \E g \in ClaimedGroups :
            /\ g.resourceName = deviceType
            /\ Len(g.deviceIds) = Cardinality(DOMAIN devices)
            /\ \A i \in DOMAIN g.deviceIds : g.deviceIds[i] \in DOMAIN devices

\* C4: an identity that names no pod of a successfully fetched table gets
\* not-entitled and no error; an error is returned exactly when the query
\* failed, and then the verdict is not entitled.
C4_UnknownIdentityIsNotAnError ==
    pc = "validated" =>
        /\ verr <=> resp.err
        /\ verr => ~valid
        /\ (~resp.err /\ hostname \notin {resp.pods[i].name : i \in DOMAIN resp.pods})
               => (~valid /\ ~verr)

C4_Witness ==
    /\ pc = "validated"
    /\ ~resp.err
    /\ resp.pods # <<>>
    /\ hostname \notin {resp.pods[i].name : i \in DOMAIN resp.pods}
    /\ ~valid
    /\ ~verr

\* the replies that reached the peer
IsDelivered(m) == m.ok
Delivered == SelectSeq(sent, IsDelivered)

\* C5: after validateHost returned an error the session is Closed with one
\* message read, and the peer has received nothing but the error token, at
\* most once.
C5_ErrorReplyOnly ==
    (nvalidate = 1 /\ verr /\ pc \notin {"WriteError", "WriteReply"}) =>
        /\ pc = "Closed"
        /\ Len(received) = 1
        /\ Len(Delivered) <= 1
        /\ \A i \in DOMAIN Delivered : Delivered[i].msg = responseError

\* C6: a first message that is not a connect request "<connect-token>,
\* <identity>" gets no reply, validateHost is not called and the session
\* goes to Closed.
C6_NoReplyToNonConnect ==
    (received # <<>> /\ ~IsConnectRequest(received[1])) =>
        /\ sent = <<>>
        /\ nvalidate = 0
        /\ pc \in {"Handshake", "Closed"}

\* C7: when validateHost answered not-entitled without error, exactly one
\* reply is sent, host_nak with no descriptor; the loop is never entered, no
\* second message is read and the session is Closed.
C7_RejectedHandshakeCloses ==
    (nvalidate = 1 /\ ~valid /\ ~verr) =>
        /\ ~connected
        /\ Len(received) = 1
        /\ \/ pc = "WriteReply" /\ sent = <<>>
           \/ /\ pc = "Closed"
              /\ conn = "closed"
              /\ Len(sent) = 1
              /\ sent[1].msg = responseHostNak
              /\ sent[1].fds = <<>>

C7_Witness ==
    /\ pc = "Closed"
    /\ nvalidate = 1
    /\ ~valid
    /\ ~verr
    /\ sent = <<[msg |-> responseHostNak, fds |-> <<>>, ok |-> TRUE]>>

\* C8: in an admitted session the reply to a descriptor request for a
\* registered interface is fd_ack with exactly the stored descriptor attached.
C8_ExactDescriptor ==
    \A k \in 2..Len(sent) :
        (Admitted /\ IsFdRequest(received[k])
                  /\ Argument(received[k]) \in DOMAIN devices) =>
            /\ sent[k].msg = responseFdAck
            /\ sent[k].fds = <<devices[Argument(received[k])]>>

\* C9: in an admitted session a descriptor request for an interface that is
\* not a registry key is answered by one fd_nak with no descriptor, and when
\* that reply was delivered the session stays in the loop, connection open.
C9_UnknownDeviceDenied ==
    [][(pc = "Dispatch" /\ Admitted /\ IsFdRequest(request)
                        /\ Argument(request) \notin DOMAIN devices) =>
           /\ Len(sent') = Len(sent) + 1
           /\ Last(sent').msg = responseFdNak
           /\ Last(sent').fds = <<>>
           /\ Last(sent').ok => (pc' = "Read" /\ connected' /\ conn' = "open")]_vars

C9_Witness ==
    /\ Len(sent) = 3
    /\ received[2] = <<requestFd, ",", " ", "eth2">>
    /\ "eth2" \notin DOMAIN devices
    /\ sent[2] = [msg |-> responseFdNak, fds |-> <<>>, ok |-> TRUE]

\* C10: in an admitted session a message equal to the termination token is
\* the last message read; it gets exactly one fin_ack, without descriptor,
\* and the session is then Closed.
C10_FinEndsSession ==
    \A k \in 2..Len(received) :
        (Admitted /\ Text(received[k]) = requestFin) =>
            /\ k = Len(received)
            /\ \/ pc = "Dispatch" /\ Len(sent) = k - 1
               \/ /\ pc = "Closed"
                  /\ ~connected
                  /\ conn = "closed"
                  /\ Len(sent) = k
                  /\ sent[k].msg = responseFinAck
                  /\ sent[k].fds = <<>>
                  /\ Cardinality({i \in DOMAIN sent : sent[i].msg = responseFinAck}) = 1

C10_Witness ==
    /\ pc = "Closed"
    /\ Admitted
    /\ Len(received) = 3
    /\ Last(received) = <<requestFin>>
    /\ Last(sent) = [msg |-> responseFinAck, fds |-> <<>>, ok |-> TRUE]
\* C11: the version string is sent only as the reply to a message equal to
\* the version token, in an admitted session whose first reply was host_ok,
\* and when that reply was delivered the session stays in the loop.
C11_VersionOnlyWhenAdmitted ==
    [][(Len(sent') > Len(sent) /\ Last(sent').msg = handshakeVersion) =>
           /\ pc = "Dispatch"
           /\ Admitted
           /\ Text(request) = requestVersion
           /\ sent # <<>>
           /\ sent[1].msg = responseHostOk
           /\ Last(sent').fds = <<>>
           /\ Last(sent').ok => (pc' = "Read" /\ connected' /\ conn' = "open")]_vars

C11_Witness ==
    /\ pc = "Read"
    /\ Len(sent) = 2
    /\ received[2] = <<requestVersion>>
    /\ sent[1].msg = responseHostOk
    /\ sent[2] = [msg |-> handshakeVersion, fds |-> <<>>, ok |-> TRUE]

\* start() has ended, by return or by panic
Terminated == pc \in {"Closed", "Panicked"}

\* C13: once the listener was created, every way start() ends leaves the
\* session Closed, the listener closed and the accepted connection and its
\* socket file closed.
C13_EveryExitReleases ==
    (Terminated /\ listener # "none") =>
        /\ pc = "Closed"
        /\ listener = "closed"
        /\ conn # "open"
        /\ socketFile # "open"

\* C14: a failed write is the last thing the server does on the connection:
\* no write follows it and the session is Closed.
C14_FailedWriteCloses ==
    \A i \in DOMAIN sent :
        ~sent[i].ok => (i = Len(sent) /\ pc = "Closed")

\* neither a descriptor request, nor the version token, nor the termination token
IsOtherRequest(req) ==
    /\ ~IsFdRequest(req)
    /\ Text(req) # requestVersion
    /\ Text(req) # requestFin

\* C15: in an admitted session every message that is not a descriptor
\* request, the version token or the termination token is answered by one
\* bad-request reply and the session stays in the loop.
C15_OtherRequestsGetNak ==
    \A k \in 2..Len(received) :
        (Admitted /\ sent[1].ok /\ IsOtherRequest(received[k])) =>
            \/ pc = "Dispatch" /\ Len(sent) = k - 1 /\ k = Len(received)
            \/ /\ Len(sent) >= k
               /\ sent[k].msg = responseBadRequest
               /\ sent[k].fds = <<>>
               /\ (k = Len(sent) /\ sent[k].ok) => connected

C17_ReadsAndRepliesAlternate ==
    /\ Len(Delivered) <= Len(received)
    /\ pc \in {"ReadFirst", "Read"} => Len(sent) >= Len(received)

\* C18: after Start no step changes the registry or the resource type.
C18_RegistryFrozen ==
    [][pc # "Created" => (devices' = devices /\ deviceType' = deviceType)]_vars

C18_Witness ==
    /\ pc = "Closed"
    /\ DOMAIN devices = {"eth1", "eth2"}
    /\ Len(sent) = 3
    /\ sent[2].msg = responseFdAck
    /\ sent[3].msg = responseFinAck
\* C19: a started instance eventually ends with its handles released,
\* whatever the peer does or does not do.  (An end by panic is counted as an
\* end here, so that only a blocked accept or read can refute this.)
C19_EventuallyClosed ==
    (pc = "ListenUnix") ~>
        (Terminated /\ listener # "open" /\ conn # "open" /\ socketFile # "open")
\* C12 as stated: any two calls of the path generator return different
\* paths.
C12_DistinctPaths ==
    \A i, j \in Instances :
        (i # j /\ inst[i].pc # "none" /\ inst[j].pc # "none") =>
            inst[i].socket # inst[j].socket

\* C12 as amended: a call returns a path that does not exist when it is
\* checked, so it differs from the path of every instance that has bound
\* its socket by then; the file of an open listener exists.
C12_FreshAgainstBoundPaths ==
    /\ \A j \in Instances :
           inst[j].pc # "none" => inst[j].socket \notin inst[j].seen
    /\ \A i \in Instances :
           inst[i].listener = "open" => inst[i].socket \in fs

C12_Witness ==
    /\ inst[1].listener = "open"
    /\ inst[2].pc = "Created"
    /\ inst[2].seen = {inst[1].socket}
    /\ inst[2].socket # inst[1].socket

\* C20: a message to one instance never stops another: an instance that
\* waits for its connection can accept it, one that has accepted can do its
\* handshake, and one that is admitted can serve a descriptor request.
C20_InstancesIndependent ==
    \A j \in Instances :
        /\ inst[j].pc = "AcceptUnix" => ENABLED ProcAcceptUnix(j)
        /\ inst[j].pc = "ReadFirst" =>
               ENABLED ProcHandshake(j, <<requestConnect, ",", " ", "podA">>,
                                     SessionTable)
        /\ inst[j].pc = "Read" =>
               ENABLED ProcServe(j, <<requestFd, ",", " ", "eth1">>, TRUE)

====
